---------------------------- MODULE Spec2Model ----------------------------
(***************************************************************************)
(* A model of the CST816S touch-controller driver (src/CST816S.cpp).       *)
(*                                                                         *)
(* Two contexts run the driver: the application thread, which calls the    *)
(* public methods, and the interrupt context, which runs handleISR to      *)
(* completion whenever the touch interrupt fires.  The interrupt may       *)
(* preempt the application thread between any two steps of available().    *)
(*                                                                         *)
(* Four specifications share the actions:                                  *)
(*   Spec        the interrupt and the polling application thread          *)
(*   SpecConfig  the configuration calls, with no interrupt, over the wide *)
(*               argument sets (these calls touch no state the interrupt   *)
(*               handler or available() uses, apart from trace)            *)
(*   SpecDecode  one poll over the wide set of touch blocks                *)
(*   SpecRotate  the rotation transform applied repeatedly to a sample     *)
(*   SpecGesture gesture() on a snapshot holding any gesture byte          *)
(***************************************************************************)
EXTENDS Integers, Sequences, FiniteSets, TLC

VARIABLES
    _rotation,          \* CST816S::_rotation
    _width,             \* CST816S::_width
    _height,            \* CST816S::_height
    _event_available,   \* CST816S::_event_available
    userISR,            \* CST816S::userISR, the registered callback
    data,               \* CST816S::data, the touch-event snapshot
    data_raw,           \* read_touch's local buffer (its first 6 bytes)
    attached,           \* attachInterrupt(_irq, handleISR) has been done
    pc,                 \* position of the application thread
    trace,              \* the application thread's current or last public
                        \* call, followed by the hardware calls (bus, pins,
                        \* waits) it has made so far
    polls,              \* the last two available() calls: interrupts that
                        \* fired before the call, and the value it returns
    isrSince,           \* handleISR runs since the last available() returned
    readAfterIsr,       \* a touch-block read has started after the last
                        \* handleISR run
    isrRun,             \* the last handleISR run: the callback registered at
                        \* its entry, what it did in order, and the flag at
                        \* its exit
    pt                  \* SpecRotate's sample: a gesture and a point, as drawn
                        \* and as transformed, and the rotations applied

vars == <<_rotation, _width, _height, _event_available, userISR, data,
          data_raw, attached, pc, trace, polls, isrSince, readAfterIsr,
          isrRun, pt>>

----------------------------------------------------------------------------
(* Bounds of the model. *)

\* SpecConfig passes -MaxRotationArg..MaxRotationArg to setRotation and to
\* the constructor
MaxRotationArg == 5

\* at most MaxBurst interrupts are counted between two available() calls
MaxBurst == 2

\* the clamping of set_auto_sleep_time is compared on -MaxSleepArg..MaxSleepArg
MaxSleepArg == 300

\* SpecRotate applies the rotation transform at most MaxApply times in a row
MaxApply == 2

\* SpecRotate draws gesture IDs from 0..MaxGesture, coordinates from
\* 0..MaxCoord and display widths and heights from 1..MaxDim
MaxGesture == 5
MaxCoord == 2
MaxDim == 3

----------------------------------------------------------------------------
(* Program constants. *)

\* the touch block: register 0x01, 6 bytes
TouchReg == 1
TouchLen == 6
\* register of the auto-sleep timeout (0xF9)
AutoSleepTimeReg == 249

----------------------------------------------------------------------------
(* Integer arithmetic as the C++ code computes it. *)

\* C++ a % b for b > 0: the remainder has the sign of a
CRem(a, b) == IF a >= 0 THEN a % b ELSE 0 - ((0 - a) % b)

RECURSIVE BitAnd(_, _)
\* a & b on non-negative integers
BitAnd(a, b) ==
    IF a = 0 \/ b = 0 THEN 0
    ELSE (IF a % 2 = 1 /\ b % 2 = 1 THEN 1 ELSE 0)
         + 2 * BitAnd(a \div 2, b \div 2)

RECURSIVE BitOr(_, _)
\* a | b on non-negative integers
BitOr(a, b) ==
    IF a = 0 THEN b
    ELSE IF b = 0 THEN a
    ELSE (IF a % 2 = 1 \/ b % 2 = 1 THEN 1 ELSE 0)
         + 2 * BitOr(a \div 2, b \div 2)

RECURSIVE Pow2(_)
Pow2(n) == IF n = 0 THEN 1 ELSE 2 * Pow2(n - 1)

\* a << n and a >> n on non-negative integers (no bit is shifted out of an int here)
ShiftL(a, n) == a * Pow2(n)
ShiftR(a, n) == a \div Pow2(n)

Byte == 0..255


----------------------------------------------------------------------------
(* Rotation transform: rotateGesture and rotatePoint. *)

\* the permutation tables of rotateGesture, indexed by gesture ID 0..4
rotation90  == <<0, 3, 4, 2, 1>>
rotation180 == <<0, 2, 1, 4, 3>>
rotation270 == <<0, 4, 3, 1, 2>>

\* rotateGesture with the switch one case off (cases 0, 1, 2)
rotateGesture_caseOff(gestureID, rot) ==
    IF gestureID < 1 \/ gestureID > 4
    THEN gestureID
    ELSE CASE rot = 0 -> rotation90[gestureID + 1]
           [] rot = 1 -> rotation180[gestureID + 1]
           [] rot = 2 -> rotation270[gestureID + 1]
           [] OTHER   -> gestureID

\* rotateGesture with a 90-degree table that maps two swipes to the same one
rotateGesture_dup(gestureID, rot) ==
    IF gestureID < 1 \/ gestureID > 4 \/ rot = 0
    THEN gestureID
    ELSE CASE rot = 1 -> <<0, 3, 4, 2, 2>>[gestureID + 1]
           [] rot = 2 -> rotation180[gestureID + 1]
           [] rot = 3 -> rotation270[gestureID + 1]
           [] OTHER   -> gestureID

\* rotateGesture using the 90-degree table at 270 degrees too
rotateGesture_270as90(gestureID, rot) ==
    IF gestureID < 1 \/ gestureID > 4 \/ rot = 0
    THEN gestureID
    ELSE CASE rot = 1 -> rotation90[gestureID + 1]
           [] rot = 2 -> rotation180[gestureID + 1]
           [] rot = 3 -> rotation90[gestureID + 1]
           [] OTHER   -> gestureID

\* CST816S::rotateGesture, with _rotation = rot
rotateGesture(gestureID, rot) ==
    IF gestureID < 1 \/ gestureID > 4 \/ rot = 0
    THEN gestureID
    ELSE CASE rot = 1 -> rotation90[gestureID + 1]
           [] rot = 2 -> rotation180[gestureID + 1]
           [] rot = 3 -> rotation270[gestureID + 1]
           [] OTHER   -> gestureID

\* rotatePoint with the "- 1" of the 90-degree case forgotten
rotatePoint_noMinusOne(x, y, rot, w, h) ==
    CASE rot = 1 -> <<y, w - x>>
      [] rot = 2 -> <<w - 1 - x, h - 1 - y>>
      [] rot = 3 -> <<h - 1 - y, x>>
      [] OTHER   -> <<x, y>>

\* rotatePoint with _width and _height exchanged
rotatePoint_swapWH(x, y, rot, w, h) ==
    CASE rot = 1 -> <<y, h - 1 - x>>
      [] rot = 2 -> <<h - 1 - x, w - 1 - y>>
      [] rot = 3 -> <<w - 1 - y, x>>
      [] OTHER   -> <<x, y>>

\* rotatePoint turning the other way: the cases of 90 and 270 degrees exchanged
rotatePoint_otherWay(x, y, rot, w, h) ==
    CASE rot = 1 -> <<h - 1 - y, x>>
      [] rot = 2 -> <<w - 1 - x, h - 1 - y>>
      [] rot = 3 -> <<y, w - 1 - x>>
      [] OTHER   -> <<x, y>>

\* CST816S::rotatePoint, with _rotation = rot, _width = w, _height = h:
\* the new <<x, y>>
rotatePoint(x, y, rot, w, h) ==
    CASE rot = 1 -> <<y, w - 1 - x>>
      [] rot = 2 -> <<w - 1 - x, h - 1 - y>>
      [] rot = 3 -> <<h - 1 - y, x>>
      [] OTHER   -> <<x, y>>

\* setRotation that stores its argument as it is
NormalizeRotation_none(rotation) == rotation

\* the value setRotation stores: rotation % 4
NormalizeRotation(rotation) == CRem(rotation, 4)

----------------------------------------------------------------------------
(* Gesture codes and their names. *)

\* enum GESTURE of CST816S.h: the codes of the chip's gesture register
NONE == 0
SWIPE_UP == 1
SWIPE_DOWN == 2
SWIPE_LEFT == 3
SWIPE_RIGHT == 4
SINGLE_CLICK == 5
DOUBLE_CLICK == 11
LONG_PRESS == 12

\* gesture() with the default case returning "NONE"
gestureName_noDefault(gestureID) ==
    CASE gestureID = SWIPE_DOWN   -> "SWIPE DOWN"
      [] gestureID = SWIPE_UP     -> "SWIPE UP"
      [] gestureID = SWIPE_LEFT   -> "SWIPE LEFT"
      [] gestureID = SWIPE_RIGHT  -> "SWIPE RIGHT"
      [] gestureID = SINGLE_CLICK -> "SINGLE CLICK"
      [] gestureID = DOUBLE_CLICK -> "DOUBLE CLICK"
      [] gestureID = LONG_PRESS   -> "LONG PRESS"
      [] OTHER                    -> "NONE"

\* the switch of CST816S::gesture over data.gestureID
gestureName(gestureID) ==
    CASE gestureID = NONE         -> "NONE"
      [] gestureID = SWIPE_DOWN   -> "SWIPE DOWN"
      [] gestureID = SWIPE_UP     -> "SWIPE UP"
      [] gestureID = SWIPE_LEFT   -> "SWIPE LEFT"
      [] gestureID = SWIPE_RIGHT  -> "SWIPE RIGHT"
      [] gestureID = SINGLE_CLICK -> "SINGLE CLICK"
      [] gestureID = DOUBLE_CLICK -> "DOUBLE CLICK"
      [] gestureID = LONG_PRESS   -> "LONG PRESS"
      [] OTHER                    -> "UNKNOWN"

----------------------------------------------------------------------------
(* Decoding of the touch block (read_touch, before rotatePoint). *)

\* decoding with a 5-bit mask on the high byte of x
DecodeX_wideMask(raw) == ShiftL(BitAnd(raw[3], 31), 8) + raw[4]

\* data.x = ((data_raw[2] & 0xF) << 8) + data_raw[3]
DecodeX(raw) == ShiftL(BitAnd(raw[3], 15), 8) + raw[4]

\* data.y = ((data_raw[4] & 0xF) << 8) + data_raw[5]
DecodeY(raw) == ShiftL(BitAnd(raw[5], 15), 8) + raw[6]

\* data.event = data_raw[2] >> 6
DecodeEvent(raw) == ShiftR(raw[3], 6)

----------------------------------------------------------------------------
(* Clamping of set_auto_sleep_time. *)

\* clamping that forgets the lower limit (the value is then cut to a byte)
ClampSleepTime_noMin(seconds) ==
    IF seconds > 255 THEN 255 ELSE seconds % 256

\* the byte set_auto_sleep_time writes for its argument
ClampSleepTime(seconds) ==
    IF seconds < 1 THEN 1
    ELSE IF seconds > 255 THEN 255
    ELSE seconds % 256

----------------------------------------------------------------------------
(* Inputs. *)

\* the four rotation settings
RotationSettings == 0..3

\* arguments of setRotation and of the constructor's rotation parameter
RotationArgs == (0 - MaxRotationArg)..MaxRotationArg

\* arguments of the setRotation call made by the callback "cbSetRotation"
CallbackRotationArgs == {0, 1}

\* the display size passed to setSize
DisplaySizes == {<<240, 280>>}

\* _width and _height before setSize: the constructors do not set them
UninitSizes == DisplaySizes \cup {<<0, 0>>}

\* callbacks passed to attachUserInterrupt: none, or one that calls setRotation
Callbacks == {"nullptr", "cbSetRotation"}

\* arguments of set_auto_sleep_time
SleepArgs == {0 - 1, 0, 1, 128, 255, 256, 300}

\* trigger modes passed to begin
InterruptModes == {"FALLING"}

\* outcomes of the two register reads of begin: each is acknowledged or not
ReadOutcomes == BOOLEAN \X BOOLEAN

\* the outcomes of Spec: the chip acknowledges both reads or neither
BusUpOrDown == {<<TRUE, TRUE>>, <<FALSE, FALSE>>}

\* contents of the chip's touch block (register 0x01) at a read:
\*   0x02 0x01 0x30 0x50 0x20 0x10   a swipe (0x02), x = 80, y = 16
\*   0xFF ... 0xFF                   what Wire.read() gives with no data
TouchBlocks ==
    { <<2, 1, 48, 80, 32, 16>>,
      <<255, 255, 255, 255, 255, 255>> }

\* touch blocks of SpecDecode: every value of byte 2, samples of the others
WideBlocks ==
    { <<b0, b1, b2, b3, b4, b5>> :
        b0 \in {2, 12}, b1 \in {1, 255}, b2 \in Byte, b3 \in {0, 80, 255},
        b4 \in {0, 15, 16, 32, 175, 255}, b5 \in {16, 255} }

\* the chip's version register (0x15) and info block (0xA7)
ChipVersion == 181
ChipVersionInfo == <<182, 0, 1>>

----------------------------------------------------------------------------
(* Entries of trace: the public call, and the hardware calls it makes. *)

Call(op, arg) == [call |-> op, arg |-> arg]

\* i2c_read(CST816S_ADDRESS, reg, buf, len); ok: endTransmission returned 0
i2c_read(reg, len, ok) ==
    [call |-> "i2c_read", reg |-> reg, len |-> len, ok |-> ok]

\* i2c_write(CST816S_ADDRESS, reg, bytes, Len(bytes))
i2c_write(reg, bytes, ok) ==
    [call |-> "i2c_write", reg |-> reg, bytes |-> bytes, ok |-> ok]

digitalWrite(level) == [call |-> "digitalWrite", pin |-> "rst", level |-> level]
delay(ms) == [call |-> "delay", ms |-> ms]
pinMode(pin, mode) == [call |-> "pinMode", pin |-> pin, mode |-> mode]

\* the reset pulse of begin(): high, low, high, with a wait after each level
ResetPulse ==
    << digitalWrite("HIGH"), delay(50), digitalWrite("LOW"), delay(5),
       digitalWrite("HIGH"), delay(50) >>

----------------------------------------------------------------------------
(* Construction. *)

ZeroSnapshot ==
    [gestureID |-> 0, points |-> 0, event |-> 0, x |-> 0, y |-> 0,
     version |-> 0, versionInfo |-> <<0, 0, 0>>]

\* isrRun before any handleISR run
NoRun == [cb |-> "nullptr", steps |-> <<>>, flag |-> FALSE]

\* isrRun after a handleISR run with no callback registered
PlainRun ==
    [cb |-> "nullptr", steps |-> << "_event_available = true" >>, flag |-> TRUE]

NoSample ==
    [g |-> 0, x |-> 0, y |-> 0, g0 |-> 0, x0 |-> 0, y0 |-> 0, trail |-> <<>>]

\* what both constructors leave alone or set the same way: _width, _height
\* and _event_available are not assigned, so they hold any value (zero for
\* an object of static storage)
Constructed ==
    /\ \E sz \in UninitSizes : _width = sz[1] /\ _height = sz[2]
    /\ _event_available \in BOOLEAN
    /\ userISR = "nullptr"
    /\ data = ZeroSnapshot
    /\ data_raw = <<0, 0, 0, 0, 0, 0>>
    /\ attached = FALSE
    /\ pc = "idle"
    /\ polls = <<>>
    /\ isrSince = 0
    /\ readAfterIsr = TRUE
    /\ isrRun = NoRun
    /\ pt = NoSample

\* CST816S(sda, scl, rst, irq, wire)
Constructor4 ==
    /\ _rotation = 0
    /\ trace = << Call("CST816S", <<>>) >>
    /\ Constructed

\* CST816S(sda, scl, rst, irq, rotation, wire)
Constructor5(rotation) ==
    /\ _rotation = rotation
    /\ trace = << Call("CST816S", <<rotation>>) >>
    /\ Constructed

Init == Constructor4 \/ \E rotation \in RotationSettings : Constructor5(rotation)

----------------------------------------------------------------------------
(* Interrupt context. *)

\* userISR(): the registered callback, run in interrupt context
RunUserISR ==
    IF userISR = "cbSetRotation"
    THEN \E rotation \in CallbackRotationArgs :
             _rotation' = NormalizeRotation(rotation)
    ELSE UNCHANGED _rotation

\* handleISR setting the flag only when no callback is registered
SetAvailable_unlessCallback == _event_available' = (userISR = "nullptr")

\* _event_available = true
SetAvailable == _event_available' = TRUE

\* what handleISR does, in order: the assignment of the flag, then the call
\* of the callback if one is registered
IsrSteps ==
    << "_event_available = true" >>
    \o (IF userISR # "nullptr" THEN << "userISR()" >> ELSE <<>>)

\* the application thread is not inside available()
BetweenPolls == pc \in {"idle", "attachInterrupt"}

\* handleISR that reads and stores the touch block itself
handleISR_readsTouch ==
    /\ attached
    /\ BetweenPolls => isrSince < MaxBurst
    /\ SetAvailable
    /\ RunUserISR
    /\ isrSince' = IF BetweenPolls THEN isrSince + 1 ELSE isrSince
    /\ readAfterIsr' = FALSE
    /\ isrRun' = [cb |-> userISR, steps |-> IsrSteps,
                  flag |-> _event_available']
    /\ trace' = << trace[1], i2c_read(TouchReg, TouchLen, TRUE) >>
    /\ data' = [data EXCEPT !.points = 1, !.x = 80, !.y = 16]
    /\ UNCHANGED <<_width, _height, userISR, data_raw, attached, pc, polls, pt>>

\* CST816S::handleISR, run to completion when the interrupt fires
handleISR ==
    /\ attached
    /\ BetweenPolls => isrSince < MaxBurst
    /\ SetAvailable
    /\ RunUserISR
    /\ isrSince' = IF BetweenPolls THEN isrSince + 1 ELSE isrSince
    /\ readAfterIsr' = FALSE
    /\ isrRun' = [cb |-> userISR, steps |-> IsrSteps,
                  flag |-> _event_available']
    /\ UNCHANGED <<_width, _height, userISR, data, data_raw, attached, pc,
                   trace, polls, pt>>

----------------------------------------------------------------------------
(* available() and read_touch(), step by step. *)

Last2(s) == IF Len(s) > 2 THEN SubSeq(s, Len(s) - 1, Len(s)) ELSE s

\* available() that calls read_touch whatever the flag holds
AvailableCall_alwaysReads ==
    /\ pc = "idle"
    /\ polls' = Last2(Append(polls, [isrBefore |-> isrSince,
                                     ret |-> _event_available]))
    /\ isrSince' = 0
    /\ trace' = << Call("available", <<>>) >>
    /\ pc' = "read_touch"
    /\ UNCHANGED <<_rotation, _width, _height, _event_available, userISR,
                   data, data_raw, attached, readAfterIsr, isrRun, pt>>

\* available(): the test of _event_available; the call returns false at once
\* when the flag is clear
AvailableCall ==
    /\ pc = "idle"
    /\ polls' = Last2(Append(polls, [isrBefore |-> isrSince,
                                     ret |-> _event_available]))
    /\ isrSince' = 0
    /\ trace' = << Call("available", <<>>) >>
    /\ pc' = IF _event_available THEN "read_touch" ELSE "idle"
    /\ UNCHANGED <<_rotation, _width, _height, _event_available, userISR,
                   data, data_raw, attached, readAfterIsr,
                   isrRun, pt>>

\* read_touch(): the i2c_read of the touch block.  A failed transmission
\* leaves data_raw as it was, uninitialised: any bytes.
ReadTouchI2C(blocks) ==
    /\ pc = "read_touch"
    /\ \E ok \in BOOLEAN, blk \in blocks :
         /\ data_raw' = blk
         /\ trace' = Append(trace, i2c_read(TouchReg, TouchLen, ok))
    /\ readAfterIsr' = TRUE
    /\ pc' = "decode"
    /\ UNCHANGED <<_rotation, _width, _height, _event_available, userISR,
                   data, attached, polls, isrSince,
                   isrRun, pt>>

\* read_touch(): the assignments of gestureID, points, event, x and y.
\* rotateGesture tests _rotation at line 73 and again at line 78; whichever
\* of two values it sees, its result is the one of a single rotation (a
\* change to 0 falls to the default case, a change from 0 is not seen), so
\* one read of _rotation gives every outcome.
ReadTouchDecode ==
    /\ pc = "decode"
    /\ data' = [data EXCEPT !.gestureID = rotateGesture(data_raw[1], _rotation),
                            !.points = data_raw[2],
                            !.event = DecodeEvent(data_raw),
                            !.x = DecodeX(data_raw),
                            !.y = DecodeY(data_raw)]
    /\ pc' = "rotatePoint"
    /\ UNCHANGED <<_rotation, _width, _height, _event_available, userISR,
                   data_raw, attached, trace, polls, isrSince, readAfterIsr,
                   isrRun, pt>>

\* read_touch(): rotatePoint(data.x, data.y)
ReadTouchRotatePoint ==
    /\ pc = "rotatePoint"
    /\ LET p == rotatePoint(data.x, data.y, _rotation, _width, _height)
       IN  data' = [data EXCEPT !.x = p[1], !.y = p[2]]
    /\ pc' = "clear"
    /\ UNCHANGED <<_rotation, _width, _height, _event_available, userISR,
                   data_raw, attached, trace, polls, isrSince, readAfterIsr,
                   isrRun, pt>>

\* available() that returns without clearing the flag
ClearAvailable_forgotten == UNCHANGED _event_available

\* _event_available = false
ClearAvailable == _event_available' = FALSE

\* available(): the flag is cleared and the call returns true
AvailableReturn ==
    /\ pc = "clear"
    /\ ClearAvailable
    /\ pc' = "idle"
    /\ UNCHANGED <<_rotation, _width, _height, userISR, data, data_raw,
                   attached, trace, polls, isrSince, readAfterIsr,
                   isrRun, pt>>

----------------------------------------------------------------------------
(* Configuration calls of the application thread. *)

setSize(w, h) ==
    /\ pc = "idle"
    /\ _width' = w
    /\ _height' = h
    /\ trace' = << Call("setSize", <<w, h>>) >>
    /\ UNCHANGED <<_rotation, _event_available, userISR, data, data_raw,
                   attached, pc, polls, isrSince, readAfterIsr,
                   isrRun, pt>>

setRotation(rotation) ==
    /\ pc = "idle"
    /\ _rotation' = NormalizeRotation(rotation)
    /\ trace' = << Call("setRotation", rotation) >>
    /\ UNCHANGED <<_width, _height, _event_available, userISR, data, data_raw,
                   attached, pc, polls, isrSince, readAfterIsr,
                   isrRun, pt>>

attachUserInterrupt(callback) ==
    /\ pc = "idle"
    /\ userISR' = callback
    /\ trace' = << Call("attachUserInterrupt", callback) >>
    /\ UNCHANGED <<_rotation, _width, _height, _event_available, data,
                   data_raw, attached, pc, polls, isrSince, readAfterIsr,
                   isrRun, pt>>

\* begin that attaches handleISR first, before the reset and the reads
begin_attachFirst(interrupt, outcomes) ==
    /\ pc = "idle"
    /\ \E ok1 \in BOOLEAN, ok2 \in BOOLEAN :
         /\ <<ok1, ok2>> \in outcomes
         /\ trace' = << Call("begin", interrupt),
                        [call |-> "attachInterrupt", mode |-> interrupt],
                        [call |-> "Wire.begin", clock |-> 400000],
                        pinMode("irq", "INPUT"), pinMode("rst", "OUTPUT") >>
                     \o ResetPulse
                     \o << i2c_read(21, 1, ok1), delay(5),
                           i2c_read(167, 3, ok2) >>
         /\ data' = [data EXCEPT
                       !.version = IF ok1 THEN ChipVersion ELSE @,
                       !.versionInfo = IF ok2 THEN ChipVersionInfo ELSE @]
    /\ attached' = TRUE
    /\ pc' = "attachInterrupt"
    /\ UNCHANGED <<_rotation, _width, _height, _event_available, userISR,
                   data_raw, polls, isrSince, readAfterIsr, isrRun, pt>>

\* begin(interrupt) up to its last statement: bus and pin set-up, reset
\* pulse, the two register reads, whose outcomes <<ok1, ok2>> are drawn from
\* outcomes.  An interrupt that fires during these
\* statements has the effect of one that fires right after them: they and
\* handleISR use different variables.
begin(interrupt, outcomes) ==
    /\ pc = "idle"
    /\ \E ok1 \in BOOLEAN, ok2 \in BOOLEAN :
         /\ <<ok1, ok2>> \in outcomes
         /\ trace' = << Call("begin", interrupt),
                        [call |-> "Wire.begin", clock |-> 400000],
                        pinMode("irq", "INPUT"), pinMode("rst", "OUTPUT") >>
                     \o ResetPulse
                     \o << i2c_read(21, 1, ok1), delay(5),
                           i2c_read(167, 3, ok2) >>
         /\ data' = [data EXCEPT
                       !.version = IF ok1 THEN ChipVersion ELSE @,
                       !.versionInfo = IF ok2 THEN ChipVersionInfo ELSE @]
    /\ pc' = "attachInterrupt"
    /\ UNCHANGED <<_rotation, _width, _height, _event_available, userISR,
                   data_raw, attached, polls, isrSince, readAfterIsr,
                   isrRun, pt>>

\* the last statement of begin: attachInterrupt(_irq, handleISR, interrupt)
beginAttachInterrupt ==
    /\ pc = "attachInterrupt"
    /\ trace' = Append(trace, [call |-> "attachInterrupt",
                               mode |-> trace[1].arg])
    /\ attached' = TRUE
    /\ pc' = "idle"
    /\ UNCHANGED <<_rotation, _width, _height, _event_available, userISR,
                   data, data_raw, polls, isrSince, readAfterIsr, isrRun, pt>>

\* the effect of a call that only talks to the hardware
HardwareCall(op, arg, calls) ==
    /\ trace' = << Call(op, arg) >> \o calls
    /\ UNCHANGED <<_rotation, _width, _height, _event_available, userISR,
                   data, data_raw, attached, pc, polls, isrSince,
                   readAfterIsr, isrRun, pt>>

set_auto_sleep_time(seconds) ==
    /\ pc = "idle"
    /\ \E ok \in BOOLEAN :
         HardwareCall("set_auto_sleep_time", seconds,
                      << i2c_write(AutoSleepTimeReg,
                                   <<ClampSleepTime(seconds)>>, ok) >>)

\* sleep that writes the standby command before the reset pulse
sleep_writeFirst ==
    /\ pc = "idle"
    /\ \E ok \in BOOLEAN :
         HardwareCall("sleep", <<>>,
                      << i2c_write(165, <<3>>, ok), digitalWrite("LOW"),
                         delay(5), digitalWrite("HIGH"), delay(50) >>)

\* sleep(): the reset line low then high, then the standby command
sleep ==
    /\ pc = "idle"
    /\ \E ok \in BOOLEAN :
         HardwareCall("sleep", <<>>,
                      << digitalWrite("LOW"), delay(5), digitalWrite("HIGH"),
                         delay(50), i2c_write(165, <<3>>, ok) >>)

enable_double_click ==
    /\ pc = "idle"
    /\ \E ok \in BOOLEAN :
         HardwareCall("enable_double_click", <<>>,
                      << i2c_write(236, <<1>>, ok) >>)

disable_auto_sleep ==
    /\ pc = "idle"
    /\ \E ok \in BOOLEAN :
         HardwareCall("disable_auto_sleep", <<>>,
                      << i2c_write(254, <<254>>, ok) >>)

enable_auto_sleep ==
    /\ pc = "idle"
    /\ \E ok \in BOOLEAN :
         HardwareCall("enable_auto_sleep", <<>>,
                      << i2c_write(254, <<0>>, ok) >>)

\* gesture(): the name of data.gestureID; it talks to no hardware
gesture ==
    /\ pc = "idle"
    /\ HardwareCall("gesture", <<>>,
                    << [call |-> "return",
                        value |-> gestureName(data.gestureID)] >>)

----------------------------------------------------------------------------
(* Spec: the interrupt and the polling application thread. *)

Next ==
    \/ handleISR
    \/ AvailableCall
    \/ ReadTouchI2C(TouchBlocks)
    \/ ReadTouchDecode
    \/ ReadTouchRotatePoint
    \/ AvailableReturn
    \/ \E sz \in DisplaySizes : setSize(sz[1], sz[2])
    \/ \E rotation \in RotationSettings : setRotation(rotation)
    \/ \E callback \in Callbacks : attachUserInterrupt(callback)
    \/ \E interrupt \in InterruptModes : begin(interrupt, BusUpOrDown)
    \/ beginAttachInterrupt

Spec == Init /\ [][Next]_vars

----------------------------------------------------------------------------
(* SpecConfig: the application thread's configuration calls, one after the  *)
(* other with no interrupt, over the wide argument sets.                    *)

InitConfig ==
    Constructor4 \/ \E rotation \in RotationArgs : Constructor5(rotation)

NextConfig ==
    \/ \E sz \in DisplaySizes : setSize(sz[1], sz[2])
    \/ \E rotation \in RotationArgs : setRotation(rotation)
    \/ \E callback \in Callbacks : attachUserInterrupt(callback)
    \/ \E interrupt \in InterruptModes : begin(interrupt, ReadOutcomes)
    \/ beginAttachInterrupt
    \/ \E seconds \in SleepArgs : set_auto_sleep_time(seconds)
    \/ sleep
    \/ enable_double_click
    \/ disable_auto_sleep
    \/ enable_auto_sleep

SpecConfig == InitConfig /\ [][NextConfig]_vars

----------------------------------------------------------------------------
(* SpecDecode: the first poll after an interrupt, over the wide touch       *)
(* blocks.  It starts where Spec is after CST816S(sda, scl, rst, irq,       *)
(* wire), begin(FALLING) with both reads acknowledged, and one interrupt.   *)

AfterBeginTrace ==
    << Call("begin", "FALLING"), [call |-> "Wire.begin", clock |-> 400000],
       pinMode("irq", "INPUT"), pinMode("rst", "OUTPUT") >>
    \o ResetPulse
    \o << i2c_read(21, 1, TRUE), delay(5), i2c_read(167, 3, TRUE),
          [call |-> "attachInterrupt", mode |-> "FALLING"] >>

InitDecode ==
    /\ _rotation = 0
    /\ _width = 0
    /\ _height = 0
    /\ _event_available = TRUE
    /\ userISR = "nullptr"
    /\ data = [ZeroSnapshot EXCEPT !.version = ChipVersion,
                                   !.versionInfo = ChipVersionInfo]
    /\ data_raw = <<0, 0, 0, 0, 0, 0>>
    /\ attached = TRUE
    /\ pc = "idle"
    /\ trace = AfterBeginTrace
    /\ polls = <<>>
    /\ isrSince = 1
    /\ readAfterIsr = FALSE
    /\ isrRun = PlainRun
    /\ pt = NoSample

NextDecode ==
    \/ polls = <<>> /\ AvailableCall
    \/ ReadTouchI2C(WideBlocks)
    \/ ReadTouchDecode
    \/ ReadTouchRotatePoint
    \/ AvailableReturn

SpecDecode == InitDecode /\ [][NextDecode]_vars

----------------------------------------------------------------------------
(* SpecRotate: the rotation transform on a sample gesture and point, after  *)
(* CST816S(sda, scl, rst, irq, wire) and setSize(w, h).                     *)

InitRotate ==
    /\ _rotation = 0
    /\ \E w \in 1..MaxDim, h \in 1..MaxDim :
         /\ _width = w
         /\ _height = h
         /\ trace = << Call("setSize", <<w, h>>) >>
    /\ _event_available = FALSE
    /\ userISR = "nullptr"
    /\ data = ZeroSnapshot
    /\ data_raw = <<0, 0, 0, 0, 0, 0>>
    /\ attached = FALSE
    /\ pc = "idle"
    /\ polls = <<>>
    /\ isrSince = 0
    /\ readAfterIsr = TRUE
    /\ isrRun = NoRun
    /\ \E g \in 0..MaxGesture, x \in 0..MaxCoord, y \in 0..MaxCoord :
         pt = [g |-> g, x |-> x, y |-> y, g0 |-> g, x0 |-> x, y0 |-> y,
               trail |-> <<>>]

\* setRotation(rotation), then rotateGesture and rotatePoint on the sample,
\* as read_touch applies them to a decoded block
rotateSample(rotation) ==
    /\ pc = "idle"
    /\ Len(pt.trail) < MaxApply
    /\ _rotation' = NormalizeRotation(rotation)
    /\ trace' = << Call("setRotation", rotation) >>
    /\ LET p == rotatePoint(pt.x, pt.y, _rotation', _width, _height)
       IN  pt' = [pt EXCEPT !.g = rotateGesture(pt.g, _rotation'),
                            !.x = p[1],
                            !.y = p[2],
                            !.trail = Append(@, _rotation')]
    /\ UNCHANGED <<_width, _height, _event_available, userISR, data, data_raw,
                   attached, pc, polls, isrSince, readAfterIsr, isrRun>>

NextRotate == \E rotation \in RotationSettings : rotateSample(rotation)

SpecRotate == InitRotate /\ [][NextRotate]_vars

----------------------------------------------------------------------------
(* SpecGesture: gesture() after a completed poll at rotation 0 whose touch  *)
(* block held any byte as its gesture code.                                 *)

InitGesture ==
    /\ _rotation = 0
    /\ _width = 0
    /\ _height = 0
    /\ _event_available = FALSE
    /\ userISR = "nullptr"
    /\ \E b0 \in Byte :
          /\ data_raw = <<b0, 1, 48, 80, 32, 16>>
          /\ data = [gestureID |-> rotateGesture(b0, 0), points |-> 1,
                     event |-> DecodeEvent(data_raw), x |-> DecodeX(data_raw),
                     y |-> DecodeY(data_raw), version |-> ChipVersion,
                     versionInfo |-> ChipVersionInfo]
    /\ attached = TRUE
    /\ pc = "idle"
    /\ trace = << Call("available", <<>>), i2c_read(TouchReg, TouchLen, TRUE) >>
    /\ polls = << [isrBefore |-> 1, ret |-> TRUE] >>
    /\ isrSince = 0
    /\ readAfterIsr = TRUE
    /\ isrRun = PlainRun
    /\ pt = NoSample

NextGesture == gesture

SpecGesture == InitGesture /\ [][NextGesture]_vars

----------------------------------------------------------------------------
(* Properties. *)

LastPoll == polls[Len(polls)]

\* the poll in progress has finished read_touch: its read and its decoding
PollRead ==
    /\ pc \in {"clear", "idle"}
    /\ Len(trace) = 2
    /\ trace[1].call = "available"

\* C1: when one or more interrupts fired since the previous available()
\* returned, available() returns true; and the available() call after such a
\* call, with no interrupt since it returned, returns false.
C1_BurstYieldsOneAvailable ==
    (pc = "idle" /\ polls # <<>>) =>
        /\ LastPoll.isrBefore >= 1 => LastPoll.ret = TRUE
        /\ ( /\ Len(polls) = 2
             /\ polls[1].isrBefore >= 1
             /\ polls[1].ret = TRUE
             /\ LastPoll.isrBefore = 0 ) => LastPoll.ret = FALSE

\* C1 witness: two interrupts, a poll that returns true, a poll that returns
\* false
C1_Witness ==
    /\ pc = "idle"
    /\ polls = << [isrBefore |-> 2, ret |-> TRUE],
                  [isrBefore |-> 0, ret |-> FALSE] >>

\* C2: no interrupt is lost: while the availability flag is false, a
\* touch-block read has started after the last interrupt.
C2_NoInterruptLost == _event_available \/ readAfterIsr

\* C3: when read_touch has finished, the stored gesture and the stored
\* coordinates are the ones of the block read under one and the same rotation.
C3_SameRotation ==
    pc = "clear" =>
        \E r \in RotationSettings :
            /\ data.gestureID = rotateGesture(data_raw[1], r)
            /\ <<data.x, data.y>> =
                   rotatePoint(DecodeX(data_raw), DecodeY(data_raw), r,
                               _width, _height)

\* C4: the stored rotation is one of 0, 1, 2, 3 in every reachable state.
C4_RotationNormalized == _rotation \in RotationSettings

\* C5: after setRotation(q) with q >= 0 the stored rotation is q mod 4.
C5_SetRotationMod4 ==
    (trace[1].call = "setRotation" /\ trace[1].arg >= 0) =>
        _rotation = trace[1].arg % 4

\* C5 witness: setRotation(5) has left the rotation at 1
C5_Witness ==
    /\ trace[1].call = "setRotation"
    /\ trace[1].arg = 5
    /\ _rotation = 1

\* the byte the claim gives for set_auto_sleep_time(seconds)
IsClamped(seconds, byte) ==
    /\ byte \in 1..255
    /\ seconds <= 0 => byte = 1
    /\ seconds > 255 => byte = 255
    /\ seconds \in 1..255 => byte = seconds

\* C6: set_auto_sleep_time(seconds) makes exactly one write, to register
\* 0xF9, of the single byte seconds clamped to 1..255.
C6_AutoSleepClamped ==
    /\ trace[1].call = "set_auto_sleep_time" =>
           /\ Len(trace) = 2
           /\ trace[2].call = "i2c_write"
           /\ trace[2].reg = 249
           /\ Len(trace[2].bytes) = 1
           /\ IsClamped(trace[1].arg, trace[2].bytes[1])
    /\ \A seconds \in (0 - MaxSleepArg)..MaxSleepArg :
           IsClamped(seconds, ClampSleepTime(seconds))

\* C6 witness: set_auto_sleep_time(300) has written 255
C6_Witness ==
    /\ trace[1].call = "set_auto_sleep_time"
    /\ trace[1].arg = 300
    /\ Len(trace) = 2
    /\ trace[2] = i2c_write(249, <<255>>, TRUE)

\* C7: a poll at rotation 0 whose read was acknowledged stores points = b1,
\* event = the top 2 bits of b2, x = ((b2 & 0x0F) << 8) | b3 and
\* y = ((b4 & 0x0F) << 8) | b5, with x and y in 0..4095.
C7_Decode ==
    (PollRead /\ pc = "idle" /\ trace[2].ok /\ _rotation = 0) =>
        /\ data.points = data_raw[2]
        /\ data.event \in 0..3
        /\ (data.event * 64) + (data_raw[3] % 64) = data_raw[3]
        /\ data.x = BitOr(ShiftL(BitAnd(data_raw[3], 15), 8), data_raw[4])
        /\ data.y = BitOr(ShiftL(BitAnd(data_raw[5], 15), 8), data_raw[6])
        /\ data.x \in 0..4095
        /\ data.y \in 0..4095

\* C7 witness: the block 0x02 0x01 0xFF 0xFF 0xFF 0xFF decoded to event 3,
\* x = 4095, y = 4095
C7_Witness ==
    /\ PollRead /\ pc = "idle" /\ trace[2].ok /\ _rotation = 0
    /\ data_raw = <<2, 1, 255, 255, 255, 255>>
    /\ data.points = 1 /\ data.event = 3 /\ data.x = 4095 /\ data.y = 4095

\* the swipe gesture IDs
Swipes == 1..4

\* C8: at each rotation setting rotateGesture maps the swipe IDs 1..4 one to
\* one onto 1..4.
C8_SwipeBijection ==
    /\ _rotation \in RotationSettings =>
           /\ {rotateGesture(g, _rotation) : g \in Swipes} = Swipes
           /\ \A g \in Swipes, h \in Swipes :
                  g # h => rotateGesture(g, _rotation) # rotateGesture(h, _rotation)
    /\ (Len(pt.trail) = 1 /\ pt.g0 \in Swipes) => pt.g \in Swipes

\* C8 witness: swipe 1 rotated by 90 degrees is swipe 3
C8_Witness == pt.trail = <<1>> /\ pt.g0 = 1 /\ pt.g = 3

\* C9: rotateGesture returns every ID outside 1..4 unchanged at every rotation
\* setting, and every ID unchanged at rotation 0.
C9_NonSwipeFixed ==
    /\ \A g \in Byte \ Swipes : rotateGesture(g, _rotation) = g
    /\ _rotation = 0 => \A g \in Byte : rotateGesture(g, _rotation) = g
    /\ (Len(pt.trail) = 1 /\ (pt.g0 \notin Swipes \/ pt.trail[1] = 0)) =>
           pt.g = pt.g0

\* C9 witness: a single click (5) went through rotation 2 unchanged
C9_Witness == pt.trail = <<2>> /\ pt.g0 = 5 /\ pt.g = 5

\* C10 as claimed: with the same width and height, rotatePoint at 1 then 3,
\* at 3 then 1, or twice at 2, returns the original point.
C10_InverseSameSize ==
    pt.trail \in {<<1, 3>>, <<3, 1>>, <<2, 2>>} =>
        (pt.x = pt.x0 /\ pt.y = pt.y0)

\* C10 amended: rotatePoint twice at 2 returns the original point for every
\* width and height; at 1 then 3 it returns (x + H - W, y) and at 3 then 1
\* (x, y + W - H), the original point exactly when W = H.
C10_InverseSquareOrHalfTurn ==
    /\ pt.trail = <<2, 2>> => (pt.x = pt.x0 /\ pt.y = pt.y0)
    /\ pt.trail = <<1, 3>> =>
           (pt.x = pt.x0 + _height - _width /\ pt.y = pt.y0)
    /\ pt.trail = <<3, 1>> =>
           (pt.x = pt.x0 /\ pt.y = pt.y0 + _width - _height)
    /\ (pt.trail \in {<<1, 3>>, <<3, 1>>} /\ _width = _height) =>
           (pt.x = pt.x0 /\ pt.y = pt.y0)

\* C10 witness: on a 2 x 2 display, (1, 2) is back after 90 then 270 degrees
C10_Witness ==
    /\ pt.trail = <<1, 3>>
    /\ _width = 2 /\ _height = 2
    /\ pt.x0 = 1 /\ pt.y0 = 2
    /\ pt.x = 1 /\ pt.y = 2

\* C11: with display width W and height H, rotatePoint turns the read point
\* (x, y) into (x, y) at rotation 0, (y, W-1-x) at rotation 1,
\* (W-1-x, H-1-y) at rotation 2 and (H-1-y, x) at rotation 3.
C11_RotatePointFormulas ==
    Len(pt.trail) = 1 =>
        /\ pt.trail[1] = 0 => (pt.x = pt.x0 /\ pt.y = pt.y0)
        /\ pt.trail[1] = 1 => (pt.x = pt.y0 /\ pt.y = _width - 1 - pt.x0)
        /\ pt.trail[1] = 2 => (pt.x = _width - 1 - pt.x0
                               /\ pt.y = _height - 1 - pt.y0)
        /\ pt.trail[1] = 3 => (pt.x = _height - 1 - pt.y0 /\ pt.y = pt.x0)

\* C11 witness: on a 3 x 2 display, (0, 1) read at rotation 3 became (0, 0)
C11_Witness ==
    /\ pt.trail = <<3>> /\ _width = 3 /\ _height = 2
    /\ pt.x0 = 0 /\ pt.y0 = 1 /\ pt.x = 0 /\ pt.y = 0

\* the eight defined gesture codes, each with its literal name
DefinedGestures ==
    { <<NONE, "NONE">>, <<SWIPE_DOWN, "SWIPE DOWN">>, <<SWIPE_UP, "SWIPE UP">>,
      <<SWIPE_LEFT, "SWIPE LEFT">>, <<SWIPE_RIGHT, "SWIPE RIGHT">>,
      <<SINGLE_CLICK, "SINGLE CLICK">>, <<DOUBLE_CLICK, "DOUBLE CLICK">>,
      <<LONG_PRESS, "LONG PRESS">> }

\* the name the claim gives to a gesture code
ClaimedName(id) ==
    IF \E d \in DefinedGestures : d[1] = id
    THEN (CHOOSE d \in DefinedGestures : d[1] = id)[2]
    ELSE "UNKNOWN"

\* C12: gesture() returns a name for every byte value of the stored gesture
\* ID: its own literal name for each of the eight defined codes, "UNKNOWN"
\* for every other value.
C12_GestureName ==
    /\ \A id \in Byte : gestureName(id) = ClaimedName(id)
    /\ (trace[1].call = "gesture") =>
           /\ Len(trace) = 2
           /\ trace[2].call = "return"
           /\ trace[2].value = ClaimedName(data.gestureID)
           /\ trace[2].value \in {d[2] : d \in DefinedGestures} \cup {"UNKNOWN"}

\* C12 witness: gesture() on a snapshot holding 0x80 returned "UNKNOWN"
C12_Witness ==
    /\ trace[1].call = "gesture"
    /\ data.gestureID = 128
    /\ trace[2].value = "UNKNOWN"

\* the number of calls of the callback in a handleISR run
CallbackCalls(steps) ==
    Cardinality({i \in 1..Len(steps) : steps[i] = "userISR()"})

\* C13: every handleISR run leaves the availability flag true, whether or not
\* a callback is registered; a registered callback is called exactly once in
\* the run, after the flag has been set; with no callback nothing is called.
C13_IsrSetsFlagThenCallback ==
    isrRun # NoRun =>
        /\ isrRun.flag
        /\ isrRun.steps[1] = "_event_available = true"
        /\ isrRun.cb # "nullptr" =>
               /\ CallbackCalls(isrRun.steps) = 1
               /\ \E i \in 2..Len(isrRun.steps) : isrRun.steps[i] = "userISR()"
        /\ isrRun.cb = "nullptr" => isrRun.steps = << "_event_available = true" >>

\* C13 witness: a handleISR run with the callback registered has just ended
C13_Witness ==
    /\ isrRun.cb = "cbSetRotation"
    /\ isrRun.steps = << "_event_available = true", "userISR()" >>
    /\ _event_available
    /\ ~readAfterIsr

\* the touch fields of a snapshot
TouchFields(d) == <<d.gestureID, d.points, d.event, d.x, d.y>>

\* the poll in progress has made its touch-block read, and the read failed
FailedPollRead ==
    /\ pc \in {"decode", "rotatePoint", "clear"}
    /\ ~trace[2].ok

\* C14: when the touch-block read of a poll fails, no step of that poll
\* changes the snapshot's gesture, points, event, x or y: they stay as they
\* were before the poll.
C14_FailedReadKeepsSnapshot ==
    [][FailedPollRead => TouchFields(data') = TouchFields(data)]_vars

\* the application thread is inside or just after an available() call that
\* found the flag true
InPollOfTrueFlag == trace[1].call = "available" /\ LastPoll.ret

\* C15: the touch block (register 0x01) is read only inside available(), and
\* only when the flag was true at the call.  A call with the flag false
\* returns false at once, makes no bus transaction and leaves the snapshot
\* and the flag unchanged; a call that returns true has made exactly one
\* read, of 6 bytes from register 0x01.
C15_TouchReadOnlyInTruePoll ==
    /\ [](/\ \A i \in 1..Len(trace) :
                (trace[i].call = "i2c_read" /\ trace[i].reg = TouchReg) =>
                    InPollOfTrueFlag
          /\ (trace[1].call = "available" /\ pc = "idle" /\ ~LastPoll.ret) =>
                 trace = << Call("available", <<>>) >>
          /\ (trace[1].call = "available" /\ pc = "idle" /\ LastPoll.ret) =>
                 /\ Len(trace) = 2
                 /\ trace[2] = i2c_read(1, 6, trace[2].ok))
    /\ [][(/\ ~_event_available
            /\ trace'[1].call = "available"
            /\ AvailableCall) =>
             /\ pc' = "idle"
             /\ LastPoll'.ret = FALSE
             /\ data' = data
             /\ _event_available' = FALSE]_vars

\* C15 witness: an available() call has returned true after one acknowledged
\* read of the touch block, and the snapshot holds the block
C15_Witness ==
    /\ pc = "idle"
    /\ trace = << Call("available", <<>>), i2c_read(1, 6, TRUE) >>
    /\ LastPoll.ret
    /\ data.x = 80 /\ data.y = 16

\* C16: a handleISR run makes no bus transaction (nor any other hardware
\* call) and changes none of the snapshot, the display size and, unless a
\* callback is registered and changes it, the rotation setting: apart from
\* what the callback does, it only sets the availability flag.
C16_IsrOnlySetsFlag ==
    [][handleISR =>
          /\ trace' = trace
          /\ data' = data
          /\ _width' = _width
          /\ _height' = _height
          /\ userISR = "nullptr" => _rotation' = _rotation
          /\ userISR' = userISR
          /\ _event_available']_vars

\* C16 witness: handleISR ran between the touch-block read of a poll and its
\* decoding; the read is the poll's only bus transaction and the snapshot
\* still holds the previous block
C16_Witness ==
    /\ pc = "decode"
    /\ ~readAfterIsr
    /\ isrRun = PlainRun
    /\ trace = << Call("available", <<>>), i2c_read(1, 6, TRUE) >>
    /\ data_raw = <<255, 255, 255, 255, 255, 255>>
    /\ data.x = 80 /\ data.y = 16

\* the calls of begin() in the claimed order: bus configuration, pin
\* configuration, reset line high, low, high with a wait after each level,
\* the two register reads, the attachment of the interrupt handler
BeginOrder ==
    << "begin", "Wire.begin", "pinMode", "pinMode",
       "digitalWrite", "delay", "digitalWrite", "delay", "digitalWrite", "delay",
       "i2c_read", "delay", "i2c_read", "attachInterrupt" >>

\* C17: begin() configures the bus, then the pins, drives the reset line
\* high, low, high with a wait after each level, reads register 0x15, then
\* register 0xA7, and only then attaches the interrupt handler, as its last
\* step; the handler is attached by nothing else, so no handleISR run
\* happens before a begin() has finished its reset and its register reads.
C17_BeginOrder ==
    /\ [](/\ trace[1].call = "begin" =>
                /\ Len(trace) = (IF pc = "idle" THEN 14 ELSE 13)
                /\ \A i \in 1..Len(trace) : trace[i].call = BeginOrder[i]
                /\ <<trace[5].level, trace[7].level, trace[9].level>>
                       = <<"HIGH", "LOW", "HIGH">>
                /\ trace[11].reg = 21 /\ trace[11].len = 1
                /\ trace[13].reg = 167 /\ trace[13].len = 3
          /\ ~attached => isrRun = NoRun)
    /\ [][(~attached /\ attached') =>
             /\ trace[1].call = "begin"
             /\ Len(trace) = 13
             /\ trace' = Append(trace, trace'[14])
             /\ trace'[14].call = "attachInterrupt"]_vars

\* C17 witness: the first begin() has returned with both reads acknowledged
\* and the handler attached, and no handleISR run has happened yet
C17_Witness ==
    /\ pc = "idle"
    /\ trace[1].call = "begin"
    /\ trace[11].ok /\ trace[13].ok
    /\ trace[14].call = "attachInterrupt"
    /\ attached
    /\ isrRun = NoRun
    /\ polls = <<>>

\* the bus transactions among the calls of a trace
BusCalls(calls) ==
    {i \in 1..Len(calls) : calls[i].call \in {"i2c_read", "i2c_write"}}

\* C18 as claimed: sleep() issues the reset pulse of begin() (reset line
\* high, then low, then high, with a wait after each level) and after it, as
\* its last step, exactly one write, of 0x03 to register 0xA5.
C18_SleepFullPulse ==
    trace[1].call = "sleep" =>
        /\ Len(trace) = 1 + Len(ResetPulse) + 1
        /\ SubSeq(trace, 2, Len(trace) - 1) = ResetPulse
        /\ BusCalls(trace) = {Len(trace)}
        /\ trace[Len(trace)] = i2c_write(165, <<3>>, trace[Len(trace)].ok)

\* C18 amended: sleep() issues the reset pulse of begin() without its first
\* level: reset line low, a wait of 5 ms, reset line high, a wait of 50 ms;
\* after it, as its last step, exactly one write, of 0x03 to register 0xA5.
C18_SleepLowHighPulse ==
    trace[1].call = "sleep" =>
        /\ Len(trace) = 6
        /\ SubSeq(trace, 2, 5) = SubSeq(ResetPulse, 3, 6)
        /\ SubSeq(trace, 2, 5) = << digitalWrite("LOW"), delay(5),
                                    digitalWrite("HIGH"), delay(50) >>
        /\ BusCalls(trace) = {6}
        /\ trace[6] = i2c_write(165, <<3>>, trace[6].ok)

\* C18 witness: sleep() has returned after its pulse and an acknowledged
\* write of the standby command
C18_Witness ==
    /\ pc = "idle"
    /\ trace[1].call = "sleep"
    /\ trace[2] = digitalWrite("LOW")
    /\ trace[Len(trace)] = i2c_write(165, <<3>>, TRUE)

RECURSIVE SumOf(_)
\* the sum of a sequence of numbers
SumOf(seq) == IF seq = <<>> THEN 0 ELSE seq[1] + SumOf(Tail(seq))

\* C19: rotateGesture composes like rotations: for rotation settings a and b
\* and every gesture ID g, rotating g at a and the result at b gives the
\* gesture that rotating g at (a + b) mod 4 gives.  (The first conjunct does
\* not depend on the state; it is evaluated on the initial states.)
C19_GestureRotationComposes ==
    /\ pt.trail = <<>> =>
           \A a \in RotationSettings, b \in RotationSettings, g \in Byte :
               rotateGesture(rotateGesture(g, a), b)
                   = rotateGesture(g, (a + b) % 4)
    /\ Len(pt.trail) >= 2 =>
           pt.g = rotateGesture(pt.g0, SumOf(pt.trail) % 4)

\* C19 witness: swipe 1 rotated at 1 and then at 2 is swipe 4, as at 3
C19_Witness ==
    /\ pt.trail = <<1, 2>>
    /\ pt.g0 = 1
    /\ pt.g = 4
    /\ rotateGesture(1, 3) = 4

\* C20: on a display of width W and height H, a read point with 0 <= x < W
\* and 0 <= y < H is turned by rotatePoint into a point inside the rotated
\* display: 0 <= x' < W and 0 <= y' < H at rotations 0 and 2, 0 <= x' < H
\* and 0 <= y' < W at rotations 1 and 3.
C20_RotatedPointInside ==
    ( /\ Len(pt.trail) = 1
      /\ pt.x0 \in 0..(_width - 1)
      /\ pt.y0 \in 0..(_height - 1) ) =>
        /\ pt.trail[1] \in {0, 2} =>
               (0 <= pt.x /\ pt.x < _width /\ 0 <= pt.y /\ pt.y < _height)
        /\ pt.trail[1] \in {1, 3} =>
               (0 <= pt.x /\ pt.x < _height /\ 0 <= pt.y /\ pt.y < _width)

\* C20 witness: on a 3 x 1 display, the corner (2, 0) read at rotation 1 is
\* the corner (0, 0) of the 1 x 3 display
C20_Witness ==
    /\ pt.trail = <<1>>
    /\ _width = 3 /\ _height = 1
    /\ pt.x0 = 2 /\ pt.y0 = 0
    /\ pt.x = 0 /\ pt.y = 0

============================================================================
